---- MODULE Spec2Model ----
(***************************************************************************)
(* Model of src_python/habitat_sim/utils/settings.py: make_cfg translates  *)
(* a settings dict into a habitat_sim.Configuration.                       *)
(*                                                                         *)
(* Encoding of Python values                                               *)
(*   dict            function whose DOMAIN is the set of keys present      *)
(*   ordered dict    (settings["sensors"]) sequence of <<key, value>>      *)
(*                   pairs with distinct keys, in iteration order          *)
(*   str identifiers sequence of one-character strings, so that the        *)
(*                   substring test of lines 97 and 107 is computed        *)
(*   float           integer number of hundredths (1.5 is 150, -0.27 is    *)
(*                   -27, 364.84 is 36484); hfov and pixels are integers   *)
(*   None            the empty sequence                                    *)
(*   object          record of the attributes that were assigned to it,    *)
(*                   plus "class"; an attribute outside the DOMAIN keeps   *)
(*                   whatever the engine's constructor gave it             *)
(***************************************************************************)
EXTENDS Integers, Sequences, FiniteSets, TLC

VARIABLES settings, default_sim_settings, default_sensor_settings,
          callers, pc, sim_cfg, sensor_specs, next_sensor, error, result

vars == <<settings, default_sim_settings, default_sensor_settings,
          callers, pc, sim_cfg, sensor_specs, next_sensor, error, result>>

(* ------------------------------ bounds -------------------------------- *)
MaxSensors == 2
MaxThreads == 2
MaxConcSensors == 2

(* --------------------------- Python helpers --------------------------- *)
None == <<>>

EmptyDict == [k \in {} |-> 0]

\* {**a, **b}: a new dict, the keys of b win
Merge(a, b) ==
  [k \in (DOMAIN a) \cup (DOMAIN b) |-> IF k \in DOMAIN b THEN b[k] ELSE a[k]]

\* for k in kw_args: setattr(obj, k, kw_args[k])
SetAttrs(obj, kw_args) == Merge(obj, kw_args)

RECURSIVE FindFrom(_, _, _)
FindFrom(s, w, i) ==
  IF i + Len(w) - 1 > Len(s) THEN FALSE
  ELSE IF SubSeq(s, i, i + Len(w) - 1) = w THEN TRUE
  ELSE FindFrom(s, w, i + 1)

\* w in s, for two str
StrIn(w, s) == FindFrom(s, w, 1)

(* ----------------------------- identifiers ---------------------------- *)
fisheye == <<"f","i","s","h","e","y","e">>
equirect == <<"e","q","u","i","r","e","c","t">>
sensor_suffix == <<"_","s","e","n","s","o","r">>

color_sensor == <<"c","o","l","o","r">> \o sensor_suffix
fisheye_sensor == fisheye \o sensor_suffix
equirect_sensor == equirect \o sensor_suffix
depth_fisheye == <<"d","e","p","t","h","_">> \o fisheye
equirect_fisheye == equirect \o <<"_">> \o fisheye
fish_eye == <<"f","i","s","h","_","e","y","e">>

SensorIds ==
  {color_sensor, fisheye_sensor, equirect_sensor,
   depth_fisheye, equirect_fisheye, fish_eye}

(* ---------------------------- module tables --------------------------- *)
DefaultSimSettings ==
  [scene_dataset_config_file |-> "default",
   scene |-> "NONE",
   width |-> 640,
   height |-> 480,
   default_agent |-> 0,
   seed |-> 1,
   physics_config_file |-> "data/default.physics_config.json",
   sensors |-> << <<color_sensor, EmptyDict>> >>]

DefaultSensorSettings ==
  [hfov |-> 90,
   position |-> <<0, 150, 0>>,
   orientation |-> <<0, 0, 0>>]

(* ------------------------------- inputs ------------------------------- *)
SensorOptions ==
  { EmptyDict,
    [hfov |-> 75],
    [position |-> <<100, 0, -50>>, orientation |-> <<0, 314, 0>>],
    [sensor_type |-> "DEPTH", hfov |-> 75],
    [sensor_type |-> "COLOR", sensor_subtype |-> "FISHEYE"],
    [sensor_type |-> "SEMANTIC", sensor_subtype |-> "EQUIRECTANGULAR",
     orientation |-> <<0, 314, 0>>],
    [xi |-> 10, alpha |-> 20, focal_length |-> <<10000, 10000>>,
     principal_point_offset |-> <<128, 128>>, resolution |-> <<64, 64>>] }

SensorEntries == { <<u, o>> : u \in SensorIds, o \in SensorOptions }

DistinctKeys(items) ==
  \A i, j \in 1..Len(items) : i # j => items[i][1] # items[j][1]

SeqsUpTo(S, n) == UNION { [1..m -> S] : m \in 0..n }

SensorDicts(entries, n) == { items \in SeqsUpTo(entries, n) : DistinctKeys(items) }

TopKeys ==
  {"scene", "height", "width", "sensors",
   "scene_dataset_config_file", "physics_config_file", "scene_light_setup",
   "enable_physics", "frustum_culling", "gpu_device_id"}

TopValue(k, sensors) ==
  CASE k = "scene" -> "apartment_1.glb"
    [] k = "height" -> 256
    [] k = "width" -> 512
    [] k = "sensors" -> sensors
    [] k = "scene_dataset_config_file" -> "mp3d.scene_dataset_config.json"
    [] k = "physics_config_file" -> "my.physics_config.json"
    [] k = "scene_light_setup" -> "custom_lights"
    [] k = "enable_physics" -> TRUE
    [] k = "frustum_culling" -> TRUE
    [] k = "gpu_device_id" -> 3

SettingsWith(K, sensors) == [k \in K |-> TopValue(k, sensors)]

CompleteKeys == {"scene", "height", "width", "sensors"}

\* every combination of top-level keys around the default sensors mapping,
\* and every sensors mapping around the keys make_cfg always reads
SettingsInputs ==
  { SettingsWith(K, DefaultSimSettings.sensors) : K \in SUBSET TopKeys }
  \cup
  { SettingsWith(CompleteKeys \cup X, s) :
      X \in {{}, {"gpu_device_id", "frustum_culling"}},
      s \in SensorDicts(SensorEntries, MaxSensors) }
  \cup
  { SettingsWith({"scene", "sensors"} \cup X, s) :
      X \in {{}, {"height"}, {"width"}},
      s \in SensorDicts(SensorEntries, 1) }

ConcSensorEntries ==
  { <<color_sensor, EmptyDict>>,
    <<color_sensor, [sensor_type |-> "DEPTH", hfov |-> 75]>>,
    <<fisheye_sensor, [position |-> <<100, 0, -50>>, orientation |-> <<0, 314, 0>>]>>,
    <<equirect_sensor, [hfov |-> 75]>>,
    <<fish_eye, [xi |-> 10, alpha |-> 20, focal_length |-> <<10000, 10000>>,
                 principal_point_offset |-> <<128, 128>>, resolution |-> <<64, 64>>]>> }

ConcSettingsInputs ==
  { SettingsWith(K, s) :
      K \in {CompleteKeys, CompleteKeys \ {"scene"}, CompleteKeys \ {"width"},
             CompleteKeys \cup {"enable_physics", "gpu_device_id"}},
      s \in SensorDicts(ConcSensorEntries, MaxConcSensors) }

(* ------------------------- make_cfg, lines 34-49 ---------------------- *)
SetAttr(obj, k, v) == [x \in (DOMAIN obj) \cup {k} |-> IF x = k THEN v ELSE obj[x]]

\* d.get(k, dflt)
Get(d, k, dflt) == IF k \in DOMAIN d THEN d[k] ELSE dflt

CopyIfPresent(obj, s, k) == IF k \in DOMAIN s THEN SetAttr(obj, k, s[k]) ELSE obj

\* lines 34-44 with every key filled from default_sim_settings first
SimCfgOptions_defaults(s) ==
  LET m  == Merge(default_sim_settings, s)
      c0 == [class |-> "SimulatorConfiguration"]
      c1 == CopyIfPresent(c0, m, "scene_dataset_config_file")
      c2 == SetAttr(c1, "frustum_culling", Get(m, "frustum_culling", FALSE))
      c3 == CopyIfPresent(c2, m, "enable_physics")
      c4 == CopyIfPresent(c3, m, "physics_config_file")
      c5 == CopyIfPresent(c4, m, "scene_light_setup")
  IN  SetAttr(c5, "gpu_device_id", Get(m, "gpu_device_id", 0))

\* lines 34-44: the SimulatorConfiguration before the scene is assigned
SimCfgOptions(s) ==
  LET c0 == [class |-> "SimulatorConfiguration"]
      c1 == CopyIfPresent(c0, s, "scene_dataset_config_file")
      c2 == SetAttr(c1, "frustum_culling", Get(s, "frustum_culling", FALSE))
      c3 == CopyIfPresent(c2, s, "enable_physics")
      c4 == CopyIfPresent(c3, s, "physics_config_file")
      c5 == CopyIfPresent(c4, s, "scene_light_setup")
  IN  SetAttr(c5, "gpu_device_id", 0)

\* hasattr(sim_cfg, "scene_id"): the engine's SimulatorConfiguration has a
\* scene identifier
HasSceneId == TRUE

\* settings.get("scene", default_sim_settings["scene"]) in place of line 49
SceneLookup_get(s) ==
  [found |-> TRUE, value |-> Get(s, "scene", default_sim_settings["scene"])]

\* settings["scene"], line 49
SceneLookup(s) ==
  IF "scene" \in DOMAIN s THEN [found |-> TRUE, value |-> s["scene"]]
  ELSE [found |-> FALSE, value |-> ""]

(* ------------------------ make_cfg, lines 54-128 ---------------------- *)
create_camera_spec(kw_args) == SetAttrs([class |-> "CameraSensorSpec"], kw_args)

create_fisheye_spec(kw_args) ==
  SetAttrs([class |-> "FisheyeSensorDoubleSphereSpec",
            sensor_model_type |-> "DOUBLE_SPHERE",
            xi |-> -27,
            alpha |-> 57,
            focal_length |-> <<36484, 36486>>,
            principal_point_offset |-> None],
           kw_args)

create_equirect_spec(kw_args) == SetAttrs([class |-> "EquirectangularSensorSpec"], kw_args)

\* {**sensor_cfg, **default_sensor_settings}: the defaults win
EffectiveSensorCfg_defaults_win(defaults, sensor_cfg) == Merge(sensor_cfg, defaults)

\* line 90, the value bound to the local name sensor_cfg
EffectiveSensorCfg(defaults, sensor_cfg) == Merge(defaults, sensor_cfg)

\* default_sensor_settings.update(sensor_cfg) in place of line 90
DefaultsAfterMerge_update(defaults, sensor_cfg) == Merge(defaults, sensor_cfg)

\* line 90 builds a new dict: the module table is what it was
DefaultsAfterMerge(defaults, sensor_cfg) == defaults

\* lines 91-94
SensorTypeOf(sensor_cfg) == Get(sensor_cfg, "sensor_type", "COLOR")

SensorSubtypeOf(sensor_cfg) == Get(sensor_cfg, "sensor_subtype", "PINHOLE")

\* 4 channels for everything but DEPTH
Channels_not_depth(sensor_type) == IF sensor_type # "DEPTH" THEN 4 ELSE 1

\* line 95
Channels(sensor_type) == IF sensor_type = "COLOR" THEN 4 ELSE 1

\* the equirect test first
SpecKind_equirect_first(uuid) ==
  IF StrIn(equirect, uuid) THEN "equirect"
  ELSE IF StrIn(fisheye, uuid) THEN "fisheye"
  ELSE "camera"

\* the branch taken at lines 97, 107, 117
SpecKind(uuid) ==
  IF StrIn(fisheye, uuid) THEN "fisheye"
  ELSE IF StrIn(equirect, uuid) THEN "equirect"
  ELSE "camera"

\* a "resolution" in the sensor's own options wins
Resolution_per_sensor(s, sensor_cfg) ==
  Get(sensor_cfg, "resolution", <<s["height"], s["width"]>>)

\* [settings["height"], settings["width"]], lines 102, 112, 123
Resolution(s, sensor_cfg) == <<s["height"], s["width"]>>

\* the fisheye call forwarding the whole effective record
FisheyeKwArgs_forward(s, uuid, sensor_cfg) ==
  Merge(sensor_cfg,
        [uuid |-> uuid,
         resolution |-> Resolution(s, sensor_cfg),
         sensor_type |-> SensorTypeOf(sensor_cfg),
         channels |-> Channels(SensorTypeOf(sensor_cfg))])

\* keyword arguments of lines 98-105
FisheyeKwArgs(s, uuid, sensor_cfg) ==
  [uuid |-> uuid,
   position |-> sensor_cfg["position"],
   orientation |-> sensor_cfg["orientation"],
   resolution |-> Resolution(s, sensor_cfg),
   sensor_type |-> SensorTypeOf(sensor_cfg),
   channels |-> Channels(SensorTypeOf(sensor_cfg))]

\* keyword arguments of lines 108-115
EquirectKwArgs(s, uuid, sensor_cfg) ==
  [uuid |-> uuid,
   position |-> sensor_cfg["position"],
   orientation |-> sensor_cfg["orientation"],
   resolution |-> Resolution(s, sensor_cfg),
   sensor_type |-> SensorTypeOf(sensor_cfg),
   channels |-> Channels(SensorTypeOf(sensor_cfg))]

\* position and orientation exchanged
CameraKwArgs_swapped(s, uuid, sensor_cfg) ==
  [uuid |-> uuid,
   hfov |-> sensor_cfg["hfov"],
   position |-> sensor_cfg["orientation"],
   orientation |-> sensor_cfg["position"],
   resolution |-> Resolution(s, sensor_cfg),
   sensor_type |-> SensorTypeOf(sensor_cfg),
   sensor_subtype |-> SensorSubtypeOf(sensor_cfg),
   channels |-> Channels(SensorTypeOf(sensor_cfg))]

\* keyword arguments of lines 118-127
CameraKwArgs(s, uuid, sensor_cfg) ==
  [uuid |-> uuid,
   hfov |-> sensor_cfg["hfov"],
   position |-> sensor_cfg["position"],
   orientation |-> sensor_cfg["orientation"],
   resolution |-> Resolution(s, sensor_cfg),
   sensor_type |-> SensorTypeOf(sensor_cfg),
   sensor_subtype |-> SensorSubtypeOf(sensor_cfg),
   channels |-> Channels(SensorTypeOf(sensor_cfg))]

\* the descriptor appended by one iteration of the loop, lines 90-128
SensorSpec(s, defaults, uuid, own_cfg) ==
  LET sensor_cfg == EffectiveSensorCfg(defaults, own_cfg)
  IN  CASE SpecKind(uuid) = "fisheye" ->
             create_fisheye_spec(FisheyeKwArgs(s, uuid, sensor_cfg))
        [] SpecKind(uuid) = "equirect" ->
             create_equirect_spec(EquirectKwArgs(s, uuid, sensor_cfg))
        [] OTHER ->
             create_camera_spec(CameraKwArgs(s, uuid, sensor_cfg))

\* sensor_specs.insert(0, spec)
AppendSpec_front(specs, spec) == <<spec>> \o specs

\* sensor_specs.append(spec), lines 106, 116, 128
AppendSpec(specs, spec) == Append(specs, spec)

(* ------------------------ make_cfg, lines 130-145 --------------------- *)
ActionSpec(name, amount) == [name |-> name, actuation |-> [amount |-> amount]]

ActionSpace ==
  [move_forward |-> ActionSpec("move_forward", 25),
   turn_left |-> ActionSpec("turn_left", 1000),
   turn_right |-> ActionSpec("turn_right", 1000)]

AgentConfiguration(specs) ==
  [class |-> "AgentConfiguration",
   sensor_specifications |-> specs,
   action_space |-> ActionSpace]

Configuration(cfg, agents) ==
  [class |-> "Configuration", sim_cfg |-> cfg, agents |-> agents]

NoResult == [class |-> "NoneType"]

NoObject == [class |-> "unbound"]

(* ------------------------------ the calls ----------------------------- *)
Start(c, inputs) ==
  /\ settings \in inputs
  /\ default_sim_settings = DefaultSimSettings
  /\ default_sensor_settings = DefaultSensorSettings
  /\ callers = c
  /\ pc = [t \in c |-> "start"]
  /\ sim_cfg = [t \in c |-> NoObject]
  /\ sensor_specs = [t \in c |-> <<>>]
  /\ next_sensor = [t \in c |-> 1]
  /\ error = [t \in c |-> "none"]
  /\ result = [t \in c |-> NoResult]

\* one caller
Init == Start({1}, SettingsInputs)

\* several threads calling make_cfg on the same settings map
InitConc == Start(1..MaxThreads, ConcSettingsInputs)

Raise(t, e) ==
  /\ pc' = [pc EXCEPT ![t] = "raised"]
  /\ error' = [error EXCEPT ![t] = e]

Tables == <<settings, default_sim_settings, default_sensor_settings, callers>>

\* lines 34-44
BuildSimCfg(t) ==
  /\ pc[t] = "start"
  /\ sim_cfg' = [sim_cfg EXCEPT ![t] = SimCfgOptions(settings)]
  /\ pc' = [pc EXCEPT ![t] = "scene"]
  /\ UNCHANGED <<Tables, sensor_specs, next_sensor, error, result>>

\* lines 45-52
AssignScene(t) ==
  /\ pc[t] = "scene"
  /\ IF ~HasSceneId
       THEN Raise(t, "RuntimeError") /\ UNCHANGED sim_cfg
       ELSE IF ~SceneLookup(settings).found
         THEN Raise(t, "KeyError: scene") /\ UNCHANGED sim_cfg
         ELSE /\ sim_cfg' = [sim_cfg EXCEPT
                   ![t] = SetAttr(@, "scene_id", SceneLookup(settings).value)]
              /\ pc' = [pc EXCEPT ![t] = "sensors"]
              /\ UNCHANGED error
  /\ UNCHANGED <<Tables, sensor_specs, next_sensor, result>>

\* line 88, settings["sensors"].items()
BeginSensors(t) ==
  /\ pc[t] = "sensors"
  /\ IF "sensors" \notin DOMAIN settings
       THEN Raise(t, "KeyError: sensors")
       ELSE pc' = [pc EXCEPT ![t] = "loop"] /\ UNCHANGED error
  /\ UNCHANGED <<Tables, sim_cfg, sensor_specs, next_sensor, result>>

\* lines 88-128, one iteration of the loop (or its end)
SensorStep(t) ==
  /\ pc[t] = "loop"
  /\ LET items == settings["sensors"]
         i == next_sensor[t]
     IN  IF i > Len(items)
           THEN /\ pc' = [pc EXCEPT ![t] = "agent"]
                /\ UNCHANGED <<default_sensor_settings, sensor_specs, next_sensor, error>>
           ELSE /\ default_sensor_settings' =
                     DefaultsAfterMerge(default_sensor_settings, items[i][2])
                /\ IF "height" \notin DOMAIN settings
                     THEN Raise(t, "KeyError: height")
                          /\ UNCHANGED <<sensor_specs, next_sensor>>
                     ELSE IF "width" \notin DOMAIN settings
                       THEN Raise(t, "KeyError: width")
                            /\ UNCHANGED <<sensor_specs, next_sensor>>
                       ELSE /\ sensor_specs' = [sensor_specs EXCEPT
                                 ![t] = AppendSpec(@, SensorSpec(settings,
                                          default_sensor_settings,
                                          items[i][1], items[i][2]))]
                            /\ next_sensor' = [next_sensor EXCEPT ![t] = i + 1]
                            /\ UNCHANGED <<pc, error>>
  /\ UNCHANGED <<settings, default_sim_settings, callers, sim_cfg, result>>

\* lines 130-145
MakeAgent(t) ==
  /\ pc[t] = "agent"
  /\ result' = [result EXCEPT
       ![t] = Configuration(sim_cfg[t], <<AgentConfiguration(sensor_specs[t])>>)]
  /\ pc' = [pc EXCEPT ![t] = "done"]
  /\ UNCHANGED <<Tables, sim_cfg, sensor_specs, next_sensor, error>>

Next ==
  \E t \in callers :
    \/ BuildSimCfg(t)
    \/ AssignScene(t)
    \/ BeginSensors(t)
    \/ SensorStep(t)
    \/ MakeAgent(t)

Spec == Init /\ [][Next]_vars

SpecConc == InitConc /\ [][Next]_vars

(* ------------------------------ vocabulary ---------------------------- *)
Returned(t) == pc[t] = "done"

Failed(t) == pc[t] = "raised"

Finished(t) == Returned(t) \/ Failed(t)

HasSensors == "sensors" \in DOMAIN settings

Items == settings["sensors"]

\* descriptors produced so far by caller t, with the entry each comes from
Produced(t) == 1..Len(sensor_specs[t])

Own(i) == Items[i][2]

Uuid(i) == Items[i][1]

\* w occurs in s
Occurs(w, s) == \E i \in 1..Len(s) : \E j \in i..Len(s) : SubSeq(s, i, j) = w

LensFields == {"xi", "alpha", "focal_length", "principal_point_offset"}

Camera == "CameraSensorSpec"

Fisheye == "FisheyeSensorDoubleSphereSpec"

Equirect == "EquirectangularSensorSpec"

LensConstant(f) ==
  CASE f = "xi" -> -27
    [] f = "alpha" -> 57
    [] f = "focal_length" -> <<36484, 36486>>
    [] f = "principal_point_offset" -> None

OptionalSimKeys ==
  {"scene_dataset_config_file", "physics_config_file", "scene_light_setup",
   "enable_physics"}

OneEmptySensor == HasSensors /\ Len(Items) = 1 /\ DOMAIN Own(1) = {}

AllDefaults(d) ==
  /\ d["position"] = <<0, 150, 0>>
  /\ d["orientation"] = <<0, 0, 0>>
  /\ "hfov" \in DOMAIN d => d["hfov"] = 90

(* ------------------------------- claims ------------------------------- *)

\* C1: a call whose settings lack "scene" never gets past the scene
\* assignment and never returns a Configuration; when it has failed, the
\* error is the KeyError for "scene", not the version-mismatch RuntimeError.
C1_MissingSceneFails ==
  \A t \in callers :
    "scene" \notin DOMAIN settings =>
      /\ pc[t] \in {"start", "scene", "raised"}
      /\ result[t] = NoResult
      /\ error[t] # "RuntimeError"
      /\ Failed(t) => error[t] = "KeyError: scene"

C1_Witness ==
  \E t \in callers :
    /\ "scene" \notin DOMAIN settings
    /\ {"sensors", "height", "width", "enable_physics"} \subseteq DOMAIN settings
    /\ Failed(t)
    /\ error[t] = "KeyError: scene"

\* C2: in every produced descriptor, position and orientation (and hfov on
\* the kind that carries it) hold the value of that sensor's own options when
\* the key is there and the default_sensor_settings value otherwise, whatever
\* the other sensors of the same call override.
C2_PerSensorMerge ==
  \A t \in callers : \A i \in Produced(t) :
    LET d == sensor_specs[t][i]
    IN  /\ {"position", "orientation"} \subseteq DOMAIN d
        /\ d["class"] = Camera => "hfov" \in DOMAIN d
        /\ \A f \in {"hfov", "position", "orientation"} \cap DOMAIN d :
             d[f] = IF f \in DOMAIN Own(i) THEN Own(i)[f]
                    ELSE DefaultSensorSettings[f]

C2_Witness ==
  \E t \in callers :
    /\ Returned(t)
    /\ Len(sensor_specs[t]) = 2
    /\ \E i, j \in Produced(t) :
         /\ "hfov" \in DOMAIN Own(i) /\ "hfov" \notin DOMAIN Own(j)
         /\ sensor_specs[t][i]["class"] = Camera
         /\ sensor_specs[t][j]["class"] = Camera
         /\ sensor_specs[t][i]["hfov"] = 75
         /\ sensor_specs[t][j]["hfov"] = 90

\* C3 as stated: settings holding only "scene" and one sensor with empty
\* options make the call return one descriptor carrying the defaults.
C3_SceneOnlySucceeds ==
  \A t \in callers :
    (DOMAIN settings = {"scene", "sensors"} /\ OneEmptySensor /\ Finished(t)) =>
      /\ Returned(t)
      /\ Len(sensor_specs[t]) = 1
      /\ AllDefaults(sensor_specs[t][1])

\* C3 amended: settings holding only "scene", "height", "width" and one
\* sensor with empty options never fail, and the returned descriptor carries
\* the default_sensor_settings value in every field of that table its kind
\* has; with "height" and "width" left out as well the call does not return
\* and fails with the KeyError for "height".
C3_DefaultsWithHeightWidth ==
  \A t \in callers :
    /\ (DOMAIN settings = {"scene", "height", "width", "sensors"} /\ OneEmptySensor) =>
         /\ ~Failed(t)
         /\ Returned(t) =>
              /\ Len(result[t].agents[1].sensor_specifications) = 1
              /\ AllDefaults(result[t].agents[1].sensor_specifications[1])
              /\ result[t].agents[1].sensor_specifications[1]["class"] = Camera
                   => "hfov" \in DOMAIN result[t].agents[1].sensor_specifications[1]
    /\ (DOMAIN settings = {"scene", "sensors"} /\ OneEmptySensor) =>
         /\ ~Returned(t)
         /\ Failed(t) => error[t] = "KeyError: height"

C3_Witness ==
  \E t \in callers :
    /\ DOMAIN settings = {"scene", "height", "width", "sensors"}
    /\ OneEmptySensor
    /\ Returned(t)
    /\ result[t].agents[1].sensor_specifications[1]["class"] = Camera
    /\ result[t].agents[1].sensor_specifications[1]["hfov"] = 90

\* C4: the class of a descriptor follows from its identifier alone: fisheye
\* when "fisheye" occurs in it, else equirectangular when "equirect" occurs
\* in it, else pinhole camera; the lens fields are on fisheye descriptors
\* only and hfov on camera descriptors only.
C4_KindFromIdentifier ==
  \A t \in callers : \A i \in Produced(t) :
    LET d == sensor_specs[t][i]
        u == Uuid(i)
    IN  /\ d["class"] = IF Occurs(fisheye, u) THEN Fisheye
                        ELSE IF Occurs(equirect, u) THEN Equirect
                        ELSE Camera
        /\ u = fisheye_sensor => d["class"] = Fisheye
        /\ u = equirect_sensor => d["class"] = Equirect
        /\ u = color_sensor => d["class"] = Camera
        /\ IF d["class"] = Fisheye THEN LensFields \subseteq DOMAIN d
           ELSE LensFields \cap DOMAIN d = {}
        /\ "hfov" \in DOMAIN d <=> d["class"] = Camera

C4_Witness ==
  \E t \in callers : \E i \in Produced(t) :
    /\ Uuid(i) = equirect_fisheye
    /\ "sensor_subtype" \in DOMAIN Own(i)
    /\ Own(i)["sensor_subtype"] = "EQUIRECTANGULAR"
    /\ sensor_specs[t][i]["class"] = Fisheye
    /\ "xi" \in DOMAIN sensor_specs[t][i]

\* C5: every produced descriptor has the sensor_type of its own options,
\* COLOR when they give none, and 4 channels exactly when that is COLOR,
\* else 1.
C5_ChannelsFromSensorType ==
  \A t \in callers : \A i \in Produced(t) :
    LET d == sensor_specs[t][i]
        st == IF "sensor_type" \in DOMAIN Own(i) THEN Own(i)["sensor_type"] ELSE "COLOR"
    IN  /\ d["sensor_type"] = st
        /\ st = "COLOR" => d["channels"] = 4
        /\ st # "COLOR" => d["channels"] = 1

C5_Witness ==
  \E t \in callers : \E i, j \in Produced(t) :
    /\ sensor_specs[t][i]["class"] = Equirect
    /\ sensor_specs[t][i]["sensor_type"] = "SEMANTIC"
    /\ sensor_specs[t][i]["channels"] = 1
    /\ "sensor_type" \notin DOMAIN Own(j)
    /\ sensor_specs[t][j]["channels"] = 4

\* C6: every produced descriptor has resolution (settings["height"],
\* settings["width"]), also when its own options hold a "resolution".
C6_SharedResolution ==
  \A t \in callers : \A i \in Produced(t) :
    /\ {"height", "width"} \subseteq DOMAIN settings
    /\ sensor_specs[t][i]["resolution"] = <<settings["height"], settings["width"]>>

C6_Witness ==
  \E t \in callers : \E i \in Produced(t) :
    /\ Returned(t)
    /\ "resolution" \in DOMAIN Own(i)
    /\ Own(i)["resolution"] = <<64, 64>>
    /\ sensor_specs[t][i]["resolution"] = <<256, 512>>

\* C7: once lines 34-44 have run, each of the four optional attributes is
\* assigned exactly when its key is in settings, and then to the settings
\* value; frustum_culling is always assigned (FALSE without the key) and
\* gpu_device_id is 0.
C7_OptionalSimFields ==
  \A t \in callers :
    pc[t] # "start" =>
      LET c == sim_cfg[t]
      IN  /\ \A k \in OptionalSimKeys :
               /\ k \in DOMAIN c <=> k \in DOMAIN settings
               /\ k \in DOMAIN c => c[k] = settings[k]
          /\ "frustum_culling" \in DOMAIN c
          /\ c["frustum_culling"] =
               (IF "frustum_culling" \in DOMAIN settings
                  THEN settings["frustum_culling"] ELSE FALSE)
          /\ c["gpu_device_id"] = 0

C7_Witness ==
  \E t \in callers :
    /\ Returned(t)
    /\ DOMAIN settings \cap (OptionalSimKeys \cup {"frustum_culling", "gpu_device_id"})
         = {"scene_light_setup", "gpu_device_id"}
    /\ settings["gpu_device_id"] = 3
    /\ "physics_config_file" \notin DOMAIN result[t].sim_cfg
    /\ result[t].sim_cfg["scene_light_setup"] = "custom_lights"
    /\ result[t].sim_cfg["frustum_culling"] = FALSE

\* C8 as stated: a fisheye descriptor carries, for each lens field, the
\* value of the sensor's own options when they supply it and the fixed
\* constant otherwise.
C8_LensOverridesApplied ==
  \A t \in callers : \A i \in Produced(t) :
    sensor_specs[t][i]["class"] = Fisheye =>
      \A f \in LensFields :
        sensor_specs[t][i][f] = IF f \in DOMAIN Own(i) THEN Own(i)[f]
                                ELSE LensConstant(f)

\* C8 amended: a fisheye descriptor carries the fixed constants (xi -0.27,
\* alpha 0.57, focal length (364.84, 364.86), principal-point offset None)
\* whether or not the sensor's own options supply those fields; the values
\* applied after the constants are uuid, position, orientation, resolution,
\* sensor_type and channels only.
C8_LensConstantsFixed ==
  \A t \in callers : \A i \in Produced(t) :
    sensor_specs[t][i]["class"] = Fisheye =>
      /\ sensor_specs[t][i]["xi"] = -27
      /\ sensor_specs[t][i]["alpha"] = 57
      /\ sensor_specs[t][i]["focal_length"] = <<36484, 36486>>
      /\ sensor_specs[t][i]["principal_point_offset"] = None
      /\ DOMAIN sensor_specs[t][i] =
           {"class", "sensor_model_type"} \cup LensFields \cup
           {"uuid", "position", "orientation", "resolution", "sensor_type", "channels"}

C8_Witness ==
  \E t \in callers : \E i \in Produced(t) :
    /\ Returned(t)
    /\ sensor_specs[t][i]["class"] = Fisheye
    /\ LensFields \subseteq DOMAIN Own(i)
    /\ Own(i)["xi"] = 10
    /\ sensor_specs[t][i]["xi"] = -27

\* C9: a returned Configuration has one agent; its sensor list has one
\* descriptor per entry of settings["sensors"], in the mapping's order, each
\* with its entry's key as uuid; its action table is move_forward 0.25,
\* turn_left 10, turn_right 10.
C9_OneAgentOrderedSensors ==
  \A t \in callers :
    Returned(t) =>
      /\ result[t]["class"] = "Configuration"
      /\ Len(result[t].agents) = 1
      /\ LET a == result[t].agents[1]
         IN  /\ Len(a.sensor_specifications) = Len(Items)
             /\ \A i \in 1..Len(Items) : a.sensor_specifications[i]["uuid"] = Uuid(i)
             /\ DOMAIN a.action_space = {"move_forward", "turn_left", "turn_right"}
             /\ a.action_space["move_forward"].actuation.amount = 25
             /\ a.action_space["turn_left"].actuation.amount = 1000
             /\ a.action_space["turn_right"].actuation.amount = 1000
             /\ \A n \in DOMAIN a.action_space : a.action_space[n].name = n

C9_Witness ==
  \E t \in callers :
    /\ Returned(t)
    /\ Len(Items) = 2
    /\ Uuid(1) = fisheye_sensor
    /\ Uuid(2) = color_sensor
    /\ result[t].agents[1].sensor_specifications[1]["uuid"] = fisheye_sensor
    /\ result[t].agents[1].sensor_specifications[2]["uuid"] = color_sensor

\* C10: threads that call make_cfg on the same settings, in any
\* interleaving of their steps, finish alike (the same error, or equal
\* Configurations), and no step changes settings, default_sim_settings or
\* default_sensor_settings.
C10_DeterministicNoSharedState ==
  /\ [](\A t1, t2 \in callers :
          (Finished(t1) /\ Finished(t2)) =>
            /\ pc[t1] = pc[t2]
            /\ error[t1] = error[t2]
            /\ result[t1] = result[t2])
  /\ [](/\ default_sim_settings = DefaultSimSettings
        /\ default_sensor_settings = DefaultSensorSettings)
  /\ [][settings' = settings]_vars

C10_Witness ==
  /\ Cardinality(callers) >= 2
  /\ \A t \in callers : Returned(t)
  /\ Len(Items) = 2
  /\ "hfov" \notin DOMAIN Own(1)
  /\ "hfov" \in DOMAIN Own(2)
  /\ \A t \in callers :
       result[t].agents[1].sensor_specifications[1]["class"] = Camera

====
